---- MODULE Spec2Model ----
(***************************************************************************)
(* A model of the Monkey tree-walking evaluator (package evaluator), its   *)
(* object system and environments (package object) and its built-in        *)
(* registry.                                                               *)
(*                                                                         *)
(* Go objects are heap cells.  An Object is a record [k, n, s]: k is the   *)
(* Go dynamic type, n an integer payload or the address of the cell in the *)
(* heap of that type, s a string payload.  Two records are equal exactly   *)
(* when the two Go interface values compare equal with ==, except for      *)
(* Integer and String objects, which the code never compares by address.   *)
(*                                                                         *)
(* Integer values stay far from the ends of int64 in every run modelled    *)
(* here, so the arithmetic is that of the integers.  A Go run-time panic   *)
(* (integer division by zero, an index out of range, a method call on the  *)
(* nil interface) is the object Panic, which unwinds every caller.  The    *)
(* functions of the statements below do not call themselves, so every      *)
(* evaluation ends.                                                        *)
(***************************************************************************)
EXTENDS Integers, Sequences, FiniteSets, TLC

VARIABLES
    envs,     \* heap of object.Environment: <<[store, outer]>>, outer = 0 is nil
    arrs,     \* heap of object.Array: the Elements of each
    funs,     \* heap of object.Function: [node, env] (Parameters and Body are the node's)
    rvs,      \* heap of object.ReturnValue: the Value of each
    stmt,     \* evalProgram: the statement of the current loop iteration (0: none yet)
    result,   \* evalProgram: the loop's variable `result`
    ret,      \* evalProgram: what the function returned (NotYet while it runs)
    n,        \* evalProgram: the number of statements evaluated
    last      \* the last direct call of the library (Environment, built-in, infix)

vars == <<envs, arrs, funs, rvs, stmt, result, ret, n, last>>

-----------------------------------------------------------------------------
(* Bounds *)

MaxEnvs  == 3     \* scopes built through the Environment API
MaxArrs  == 4     \* arrays built through the built-in API
MaxStmts == 4     \* statements of a Program

-----------------------------------------------------------------------------
(* object.go: the type tags *)

INTEGER_OBJ      == "INTEGER"
BOOLEAN_OBJ      == "BOOLEAN"
ARRAY_OBJ        == "BOOLEAN"
HASH_OBJ         == "HASH"
NULL_OBJ         == "NULL"
RETURN_VALUE_OBJ == "RETURN_VALUE"
ERROR_OBJ        == "ERROR_OBJ"
FUNCTION_OBJ     == "FUNCTION_OBJ"
STRING_OBJ       == "STRING"
BUILTIN_OBJ      == "BUILTIN"

(* Objects *)
Obj(k, i, s) == [k |-> k, n |-> i, s |-> s]

Integer(v)     == Obj("Integer", v, "")
String(v)      == Obj("String", 0, v)
Boolean(v)     == Obj("Boolean", IF v THEN 1 ELSE 0, "")
Array(a)       == Obj("Array", a, "")
Function(f)    == Obj("Function", f, "")
Builtin(name)  == Obj("Builtin", 0, name)
ReturnValue(r) == Obj("ReturnValue", r, "")
Error(msg)     == Obj("Error", 0, msg)

TRUE_  == Boolean(TRUE)
FALSE_ == Boolean(FALSE)
NULL   == Obj("Null", 0, "")

Nil    == Obj("nil", 0, "")      \* the nil interface value
Panic  == Obj("PANIC", 0, "")    \* a Go run-time panic unwinding the evaluator
Absent == Obj("absent", 0, "")   \* no entry in a map
NotYet == Obj("running", 0, "")  \* evalProgram has not returned

IsPanic(o) == o.k = "PANIC"

\* o.Type(); on the nil interface the call panics (see TypeFaults)
Type(o) ==
    CASE o.k = "Integer"     -> INTEGER_OBJ
      [] o.k = "Boolean"     -> BOOLEAN_OBJ
      [] o.k = "Array"       -> ARRAY_OBJ
      [] o.k = "Null"        -> NULL_OBJ
      [] o.k = "ReturnValue" -> RETURN_VALUE_OBJ
      [] o.k = "Error"       -> ERROR_OBJ
      [] o.k = "Function"    -> FUNCTION_OBJ
      [] o.k = "String"      -> STRING_OBJ
      [] o.k = "Builtin"     -> BUILTIN_OBJ
      [] OTHER               -> "<nil>"

TypeFaults(o) == o.k = "nil"

newError(msg) == Error(msg)

isError(o) == IF o # Nil THEN Type(o) = ERROR_OBJ ELSE FALSE

nativeBoolToBooleanObject(input) == IF input THEN TRUE_ ELSE FALSE_

-----------------------------------------------------------------------------
(* object.go: Environment *)

Names == {"g", "x", "u", "c", "rd", "mk", "sh", "nr", "push", "rest"}

EmptyStore == [nm \in Names |-> Absent]

NewEnvironment == [store |-> EmptyStore, outer |-> 0]

\* the environment allocated by ExtendEnvironment(outer)
ExtendEnvironment(outer) == [NewEnvironment EXCEPT !.outer = outer]

\* e.Get(name): [val, ok]
Get(es, e, name) ==
    LET obj == es[e].store[name]
        ok  == obj # Absent
    IN  IF ~ok /\ es[e].outer # 0
        THEN LET o2 == es[es[e].outer].store[name]
             IN  [val |-> IF o2 = Absent THEN Nil ELSE o2, ok |-> o2 # Absent]
        ELSE [val |-> IF ok THEN obj ELSE Nil, ok |-> ok]

\* e.Set(name, val): the heap of environments afterwards
Set(es, e, name, val) == [es EXCEPT ![e].store[name] = val]

-----------------------------------------------------------------------------
(* The AST handed to the evaluator.  A node is a record; children are node  *)
(* numbers in the table Nodes.  Fields not used by a kind are 0, "" or <<>>. *)

Node(kind, op, x, y, z, name, ival, list, params) ==
    [kind |-> kind, op |-> op, x |-> x, y |-> y, z |-> z, name |-> name,
     ival |-> ival, list |-> list, params |-> params]

\* the nodes of the statements below, children before parents
Nodes == <<
    Node("IntegerLiteral", "", 0, 0, 0, "", 1, <<>>, <<>>),   \* 1: 1
    Node("LetStatement", "", 1, 0, 0, "g", 0, <<>>, <<>>),   \* 2: let g = 1;
    Node("IntegerLiteral", "", 0, 0, 0, "", 2, <<>>, <<>>),   \* 3: 2
    Node("LetStatement", "", 3, 0, 0, "g", 0, <<>>, <<>>),   \* 4: let g = 2;
    Node("Identifier", "", 0, 0, 0, "g", 0, <<>>, <<>>),   \* 5: g
    Node("ExpressionStatement", "", 5, 0, 0, "", 0, <<>>, <<>>),   \* 6: g;
    Node("BlockStatement", "", 0, 0, 0, "", 0, <<6>>, <<>>),   \* 7: { g }
    Node("FunctionLiteral", "", 0, 7, 0, "", 0, <<>>, <<>>),   \* 8: fn() { g }
    Node("LetStatement", "", 8, 0, 0, "rd", 0, <<>>, <<>>),   \* 9: let rd = fn() { g };
    Node("Identifier", "", 0, 0, 0, "rd", 0, <<>>, <<>>),   \* 10: rd
    Node("CallExpression", "", 10, 0, 0, "", 0, <<>>, <<>>),   \* 11: rd()
    Node("ExpressionStatement", "", 11, 0, 0, "", 0, <<>>, <<>>),   \* 12: rd();
    Node("Identifier", "", 0, 0, 0, "g", 0, <<>>, <<>>),   \* 13: g
    Node("ExpressionStatement", "", 13, 0, 0, "", 0, <<>>, <<>>),   \* 14: g;
    Node("BlockStatement", "", 0, 0, 0, "", 0, <<14>>, <<>>),   \* 15: { g }
    Node("FunctionLiteral", "", 0, 15, 0, "", 0, <<>>, <<>>),   \* 16: fn() { g }
    Node("ExpressionStatement", "", 16, 0, 0, "", 0, <<>>, <<>>),   \* 17: fn() { g };
    Node("BlockStatement", "", 0, 0, 0, "", 0, <<17>>, <<>>),   \* 18: { fn() { g } }
    Node("FunctionLiteral", "", 0, 18, 0, "", 0, <<>>, <<>>),   \* 19: fn() { fn() { g } }
    Node("LetStatement", "", 19, 0, 0, "mk", 0, <<>>, <<>>),   \* 20: let mk = fn() { fn() { g } };
    Node("Identifier", "", 0, 0, 0, "mk", 0, <<>>, <<>>),   \* 21: mk
    Node("CallExpression", "", 21, 0, 0, "", 0, <<>>, <<>>),   \* 22: mk()
    Node("CallExpression", "", 22, 0, 0, "", 0, <<>>, <<>>),   \* 23: mk()()
    Node("ExpressionStatement", "", 23, 0, 0, "", 0, <<>>, <<>>),   \* 24: mk()();
    Node("IntegerLiteral", "", 0, 0, 0, "", 3, <<>>, <<>>),   \* 25: 3
    Node("LetStatement", "", 25, 0, 0, "g", 0, <<>>, <<>>),   \* 26: let g = 3;
    Node("IntegerLiteral", "", 0, 0, 0, "", 4, <<>>, <<>>),   \* 27: 4
    Node("LetStatement", "", 27, 0, 0, "x", 0, <<>>, <<>>),   \* 28: let x = 4;
    Node("Identifier", "", 0, 0, 0, "g", 0, <<>>, <<>>),   \* 29: g
    Node("ExpressionStatement", "", 29, 0, 0, "", 0, <<>>, <<>>),   \* 30: g;
    Node("BlockStatement", "", 0, 0, 0, "", 0, <<26, 28, 30>>, <<>>),   \* 31: { let g = 3; let x = 4; g }
    Node("FunctionLiteral", "", 0, 31, 0, "", 0, <<>>, <<"g">>),   \* 32: fn(g) { let g = 3; let x = 4; g }
    Node("LetStatement", "", 32, 0, 0, "sh", 0, <<>>, <<>>),   \* 33: let sh = fn(g) { let g = 3; let x = 4; g };
    Node("Identifier", "", 0, 0, 0, "sh", 0, <<>>, <<>>),   \* 34: sh
    Node("IntegerLiteral", "", 0, 0, 0, "", 5, <<>>, <<>>),   \* 35: 5
    Node("CallExpression", "", 34, 0, 0, "", 0, <<35>>, <<>>),   \* 36: sh(5)
    Node("ExpressionStatement", "", 36, 0, 0, "", 0, <<>>, <<>>),   \* 37: sh(5);
    Node("Identifier", "", 0, 0, 0, "c", 0, <<>>, <<>>),   \* 38: c
    Node("Identifier", "", 0, 0, 0, "c", 0, <<>>, <<>>),   \* 39: c
    Node("Identifier", "", 0, 0, 0, "c", 0, <<>>, <<>>),   \* 40: c
    Node("ReturnStatement", "", 40, 0, 0, "", 0, <<>>, <<>>),   \* 41: return c;
    Node("IntegerLiteral", "", 0, 0, 0, "", 8, <<>>, <<>>),   \* 42: 8
    Node("ExpressionStatement", "", 42, 0, 0, "", 0, <<>>, <<>>),   \* 43: 8;
    Node("BlockStatement", "", 0, 0, 0, "", 0, <<41, 43>>, <<>>),   \* 44: { return c; 8 }
    Node("IfExpression", "", 39, 44, 0, "", 0, <<>>, <<>>),   \* 45: if (c) { return c; 8 }
    Node("ExpressionStatement", "", 45, 0, 0, "", 0, <<>>, <<>>),   \* 46: if (c) { return c; 8 };
    Node("IntegerLiteral", "", 0, 0, 0, "", 9, <<>>, <<>>),   \* 47: 9
    Node("ExpressionStatement", "", 47, 0, 0, "", 0, <<>>, <<>>),   \* 48: 9;
    Node("BlockStatement", "", 0, 0, 0, "", 0, <<46, 48>>, <<>>),   \* 49: { if (c) { return c; 8 }; 9 }
    Node("IntegerLiteral", "", 0, 0, 0, "", 6, <<>>, <<>>),   \* 50: 6
    Node("ReturnStatement", "", 50, 0, 0, "", 0, <<>>, <<>>),   \* 51: return 6;
    Node("BlockStatement", "", 0, 0, 0, "", 0, <<51>>, <<>>),   \* 52: { return 6 }
    Node("IfExpression", "", 38, 49, 52, "", 0, <<>>, <<>>),   \* 53: if (c) { if (c) { return c; 8 }; 9 } else { return 6 }
    Node("ExpressionStatement", "", 53, 0, 0, "", 0, <<>>, <<>>),   \* 54: if (c) { if (c) { return c; 8 }; 9 } else { return 6 };
    Node("IntegerLiteral", "", 0, 0, 0, "", 10, <<>>, <<>>),   \* 55: 10
    Node("ExpressionStatement", "", 55, 0, 0, "", 0, <<>>, <<>>),   \* 56: 10;
    Node("BlockStatement", "", 0, 0, 0, "", 0, <<54, 56>>, <<>>),   \* 57: { if (c) { if (c) { return c; 8 }; 9 } else { return 6 }; 10 }
    Node("FunctionLiteral", "", 0, 57, 0, "", 0, <<>>, <<"c">>),   \* 58: fn(c) { if (c) { if (c) { return c; 8 }; 9 } else { return 6 }; 10 }
    Node("LetStatement", "", 58, 0, 0, "nr", 0, <<>>, <<>>),   \* 59: let nr = fn(c) { if (c) { if (c) { return c; 8 }; 9 } else { return 6 }; 10 };
    Node("Identifier", "", 0, 0, 0, "nr", 0, <<>>, <<>>),   \* 60: nr
    Node("IntegerLiteral", "", 0, 0, 0, "", 7, <<>>, <<>>),   \* 61: 7
    Node("CallExpression", "", 60, 0, 0, "", 0, <<61>>, <<>>),   \* 62: nr(7)
    Node("ExpressionStatement", "", 62, 0, 0, "", 0, <<>>, <<>>),   \* 63: nr(7);
    Node("Identifier", "", 0, 0, 0, "nr", 0, <<>>, <<>>),   \* 64: nr
    Node("Identifier", "", 0, 0, 0, "x", 0, <<>>, <<>>),   \* 65: x
    Node("CallExpression", "", 64, 0, 0, "", 0, <<65>>, <<>>),   \* 66: nr(x)
    Node("ExpressionStatement", "", 66, 0, 0, "", 0, <<>>, <<>>),   \* 67: nr(x);
    Node("IntegerLiteral", "", 0, 0, 0, "", 11, <<>>, <<>>),   \* 68: 11
    Node("ReturnStatement", "", 68, 0, 0, "", 0, <<>>, <<>>),   \* 69: return 11;
    Node("IntegerLiteral", "", 0, 0, 0, "", 1, <<>>, <<>>),   \* 70: 1
    Node("Boolean", "", 0, 0, 0, "", 1, <<>>, <<>>),   \* 71: true
    Node("InfixExpression", "+", 70, 71, 0, "", 0, <<>>, <<>>),   \* 72: 1 + true
    Node("ExpressionStatement", "", 72, 0, 0, "", 0, <<>>, <<>>),   \* 73: 1 + true;
    Node("Boolean", "", 0, 0, 0, "", 1, <<>>, <<>>),   \* 74: true
    Node("IntegerLiteral", "", 0, 0, 0, "", 12, <<>>, <<>>),   \* 75: 12
    Node("ReturnStatement", "", 75, 0, 0, "", 0, <<>>, <<>>),   \* 76: return 12;
    Node("IntegerLiteral", "", 0, 0, 0, "", 13, <<>>, <<>>),   \* 77: 13
    Node("LetStatement", "", 77, 0, 0, "g", 0, <<>>, <<>>),   \* 78: let g = 13;
    Node("Identifier", "", 0, 0, 0, "rd", 0, <<>>, <<>>),   \* 79: rd
    Node("CallExpression", "", 79, 0, 0, "", 0, <<>>, <<>>),   \* 80: rd()
    Node("ExpressionStatement", "", 80, 0, 0, "", 0, <<>>, <<>>),   \* 81: rd();
    Node("BlockStatement", "", 0, 0, 0, "", 0, <<76, 78, 81>>, <<>>),   \* 82: { return 12; let g = 13; rd() }
    Node("IfExpression", "", 74, 82, 0, "", 0, <<>>, <<>>),   \* 83: if (true) { return 12; let g = 13; rd() }
    Node("ExpressionStatement", "", 83, 0, 0, "", 0, <<>>, <<>>),   \* 84: if (true) { return 12; let g = 13; rd() };
    Node("Boolean", "", 0, 0, 0, "", 1, <<>>, <<>>),   \* 85: true
    Node("Identifier", "", 0, 0, 0, "u", 0, <<>>, <<>>),   \* 86: u
    Node("ExpressionStatement", "", 86, 0, 0, "", 0, <<>>, <<>>),   \* 87: u;
    Node("IntegerLiteral", "", 0, 0, 0, "", 17, <<>>, <<>>),   \* 88: 17
    Node("LetStatement", "", 88, 0, 0, "g", 0, <<>>, <<>>),   \* 89: let g = 17;
    Node("Identifier", "", 0, 0, 0, "rd", 0, <<>>, <<>>),   \* 90: rd
    Node("CallExpression", "", 90, 0, 0, "", 0, <<>>, <<>>),   \* 91: rd()
    Node("ExpressionStatement", "", 91, 0, 0, "", 0, <<>>, <<>>),   \* 92: rd();
    Node("BlockStatement", "", 0, 0, 0, "", 0, <<87, 89, 92>>, <<>>),   \* 93: { u; let g = 17; rd() }
    Node("IfExpression", "", 85, 93, 0, "", 0, <<>>, <<>>),   \* 94: if (true) { u; let g = 17; rd() }
    Node("ExpressionStatement", "", 94, 0, 0, "", 0, <<>>, <<>>),   \* 95: if (true) { u; let g = 17; rd() };
    Node("Identifier", "", 0, 0, 0, "u", 0, <<>>, <<>>),   \* 96: u
    Node("IntegerLiteral", "", 0, 0, 0, "", 14, <<>>, <<>>),   \* 97: 14
    Node("LetStatement", "", 97, 0, 0, "x", 0, <<>>, <<>>),   \* 98: let x = 14;
    Node("BlockStatement", "", 0, 0, 0, "", 0, <<98>>, <<>>),   \* 99: { let x = 14 }
    Node("IntegerLiteral", "", 0, 0, 0, "", 15, <<>>, <<>>),   \* 100: 15
    Node("LetStatement", "", 100, 0, 0, "x", 0, <<>>, <<>>),   \* 101: let x = 15;
    Node("BlockStatement", "", 0, 0, 0, "", 0, <<101>>, <<>>),   \* 102: { let x = 15 }
    Node("IfExpression", "", 96, 99, 102, "", 0, <<>>, <<>>),   \* 103: if (u) { let x = 14 } else { let x = 15 }
    Node("ExpressionStatement", "", 103, 0, 0, "", 0, <<>>, <<>>),   \* 104: if (u) { let x = 14 } else { let x = 15 };
    Node("Boolean", "", 0, 0, 0, "", 1, <<>>, <<>>),   \* 105: true
    Node("IntegerLiteral", "", 0, 0, 0, "", 16, <<>>, <<>>),   \* 106: 16
    Node("ReturnStatement", "", 106, 0, 0, "", 0, <<>>, <<>>),   \* 107: return 16;
    Node("BlockStatement", "", 0, 0, 0, "", 0, <<107>>, <<>>),   \* 108: { return 16 }
    Node("IfExpression", "", 105, 108, 0, "", 0, <<>>, <<>>),   \* 109: if (true) { return 16 }
    Node("LetStatement", "", 109, 0, 0, "x", 0, <<>>, <<>>),   \* 110: let x = if (true) { return 16 };
    Node("Identifier", "", 0, 0, 0, "x", 0, <<>>, <<>>),   \* 111: x
    Node("ExpressionStatement", "", 111, 0, 0, "", 0, <<>>, <<>>),   \* 112: x;
    Node("IntegerLiteral", "", 0, 0, 0, "", 5, <<>>, <<>>),   \* 113: 5
    Node("IntegerLiteral", "", 0, 0, 0, "", 0, <<>>, <<>>),   \* 114: 0
    Node("InfixExpression", "/", 113, 114, 0, "", 0, <<>>, <<>>),   \* 115: 5 / 0
    Node("ExpressionStatement", "", 115, 0, 0, "", 0, <<>>, <<>>),   \* 116: 5 / 0;
    Node("Identifier", "", 0, 0, 0, "sh", 0, <<>>, <<>>),   \* 117: sh
    Node("CallExpression", "", 117, 0, 0, "", 0, <<>>, <<>>),   \* 118: sh()
    Node("ExpressionStatement", "", 118, 0, 0, "", 0, <<>>, <<>>),   \* 119: sh();
    Node("IntegerLiteral", "", 0, 0, 0, "", 1, <<>>, <<>>),   \* 120: 1
    Node("IntegerLiteral", "", 0, 0, 0, "", 2, <<>>, <<>>),   \* 121: 2
    Node("ArrayLiteral", "", 0, 0, 0, "", 0, <<120, 121>>, <<>>),   \* 122: [1, 2]
    Node("LetStatement", "", 122, 0, 0, "x", 0, <<>>, <<>>),   \* 123: let x = [1, 2];
    Node("Identifier", "", 0, 0, 0, "push", 0, <<>>, <<>>),   \* 124: push
    Node("Identifier", "", 0, 0, 0, "x", 0, <<>>, <<>>),   \* 125: x
    Node("IntegerLiteral", "", 0, 0, 0, "", 3, <<>>, <<>>),   \* 126: 3
    Node("CallExpression", "", 124, 0, 0, "", 0, <<125, 126>>, <<>>),   \* 127: push(x, 3)
    Node("ExpressionStatement", "", 127, 0, 0, "", 0, <<>>, <<>>),   \* 128: push(x, 3);
    Node("Identifier", "", 0, 0, 0, "rest", 0, <<>>, <<>>),   \* 129: rest
    Node("Identifier", "", 0, 0, 0, "x", 0, <<>>, <<>>),   \* 130: x
    Node("CallExpression", "", 129, 0, 0, "", 0, <<130>>, <<>>),   \* 131: rest(x)
    Node("ExpressionStatement", "", 131, 0, 0, "", 0, <<>>, <<>>),   \* 132: rest(x);
    Node("Identifier", "", 0, 0, 0, "x", 0, <<>>, <<>>),   \* 133: x
    Node("IntegerLiteral", "", 0, 0, 0, "", 1, <<>>, <<>>),   \* 134: 1
    Node("IndexExpression", "", 133, 134, 0, "", 0, <<>>, <<>>),   \* 135: x[1]
    Node("ExpressionStatement", "", 135, 0, 0, "", 0, <<>>, <<>>),   \* 136: x[1];
    Node("Identifier", "", 0, 0, 0, "x", 0, <<>>, <<>>),   \* 137: x
    Node("Boolean", "", 0, 0, 0, "", 1, <<>>, <<>>),   \* 138: true
    Node("InfixExpression", "==", 137, 138, 0, "", 0, <<>>, <<>>),   \* 139: x == true
    Node("ExpressionStatement", "", 139, 0, 0, "", 0, <<>>, <<>>),   \* 140: x == true;
    Node("HashLiteral", "", 0, 0, 0, "", 0, <<>>, <<>>),   \* 141: {}
    Node("ExpressionStatement", "", 141, 0, 0, "", 0, <<>>, <<>>),   \* 142: {};
    Node("StringLiteral", "", 0, 0, 0, "a", 0, <<>>, <<>>),   \* 143: "a"
    Node("StringLiteral", "", 0, 0, 0, "b", 0, <<>>, <<>>),   \* 144: "b"
    Node("InfixExpression", "+", 143, 144, 0, "", 0, <<>>, <<>>),   \* 145: "a" + "b"
    Node("ExpressionStatement", "", 145, 0, 0, "", 0, <<>>, <<>>),   \* 146: "a" + "b";
    Node("Boolean", "", 0, 0, 0, "", 1, <<>>, <<>>),   \* 147: true
    Node("PrefixExpression", "-", 147, 0, 0, "", 0, <<>>, <<>>),   \* 148: (-true)
    Node("ExpressionStatement", "", 148, 0, 0, "", 0, <<>>, <<>>),   \* 149: (-true);
    Node("Identifier", "", 0, 0, 0, "x", 0, <<>>, <<>>),   \* 150: x
    Node("IntegerLiteral", "", 0, 0, 0, "", 1, <<>>, <<>>),   \* 151: 1
    Node("CallExpression", "", 150, 0, 0, "", 0, <<151>>, <<>>),   \* 152: x(1)
    Node("ExpressionStatement", "", 152, 0, 0, "", 0, <<>>, <<>>),   \* 153: x(1);
    Node("Boolean", "", 0, 0, 0, "", 0, <<>>, <<>>),   \* 154: false
    Node("IntegerLiteral", "", 0, 0, 0, "", 1, <<>>, <<>>),   \* 155: 1
    Node("ExpressionStatement", "", 155, 0, 0, "", 0, <<>>, <<>>),   \* 156: 1;
    Node("BlockStatement", "", 0, 0, 0, "", 0, <<156>>, <<>>),   \* 157: { 1 }
    Node("IfExpression", "", 154, 157, 0, "", 0, <<>>, <<>>),   \* 158: if (false) { 1 }
    Node("ExpressionStatement", "", 158, 0, 0, "", 0, <<>>, <<>>)   \* 159: if (false) { 1 };
>>

\* the statements a Program is made of
TopStmts == {2, 4, 9, 12, 20, 24, 33, 37, 59, 63, 67, 69, 73, 84, 95, 104, 110, 112, 116, 119, 123, 128, 132, 136, 140, 142, 146, 149, 153, 159}

-----------------------------------------------------------------------------
(* The heap threaded through an evaluation, and the result of one *)

Heap(es, as, fs, rs) == [envs |-> es, arrs |-> as, funs |-> fs, rvs |-> rs]

R(v, h) == [v |-> v, h |-> h]

\* a sub-evaluation whose result ends the enclosing expression: a panic
\* unwinds it, an Error is returned by the `if isError(..) { return .. }`
Stops(r) == IsPanic(r.v) \/ isError(r.v)

-----------------------------------------------------------------------------
(* evaluator.go: operators *)

Itoa(i) == CASE i = 0 -> "0" [] i = 1 -> "1" [] i = 2 -> "2" [] i = 3 -> "3"
             [] OTHER -> "4"

\* Go's integer division truncates toward zero
Quot(a, b) ==
    LET abs(v) == IF v < 0 THEN -v ELSE v
        q      == abs(a) \div abs(b)
    IN  IF (a < 0) # (b < 0) THEN -q ELSE q

isTruthy(obj) ==
    IF obj = NULL THEN FALSE
    ELSE IF obj = TRUE_ THEN TRUE
    ELSE IF obj = FALSE_ THEN FALSE
    ELSE TRUE

evalBangOperator(o) ==
    IF o = TRUE_ THEN FALSE_
    ELSE IF o = FALSE_ THEN TRUE_
    ELSE IF o = NULL THEN TRUE_
    ELSE FALSE_

evalMinusPrefixOperator(o) ==
    IF TypeFaults(o) THEN Panic
    ELSE IF Type(o) # INTEGER_OBJ
    THEN newError("unknown operator: -" \o Type(o))
    ELSE Integer(-o.n)

evalPrefixExpression(operator, o) ==
    IF operator = "!" THEN evalBangOperator(o)
    ELSE IF operator = "-" THEN evalMinusPrefixOperator(o)
    ELSE IF TypeFaults(o) THEN Panic
    ELSE newError("unknown operator: " \o operator \o Type(o))

unknownOperator(left, operator, right) ==
    newError("unknown operator: " \o Type(left) \o " " \o operator \o " " \o Type(right))

evalStringInfixExpression(left, right, operator) ==
    IF operator = "+" THEN String(left.s \o right.s)
    ELSE unknownOperator(left, operator, right)

evalIntegerInfixExpression(left, right, operator) ==
    CASE operator = "+"  -> Integer(left.n + right.n)
      [] operator = "-"  -> Integer(left.n - right.n)
      [] operator = "*"  -> Integer(left.n * right.n)
      [] operator = "/"  -> IF right.n = 0 THEN Panic   \* integer divide by zero
                            ELSE Integer(Quot(left.n, right.n))
      [] operator = "==" -> nativeBoolToBooleanObject(left.n = right.n)
      [] operator = "!=" -> nativeBoolToBooleanObject(left.n # right.n)
      [] operator = "<"  -> nativeBoolToBooleanObject(left.n < right.n)
      [] operator = ">"  -> nativeBoolToBooleanObject(left.n > right.n)
      [] OTHER           -> unknownOperator(left, operator, right)

evalInfixExpression(left, right, operator) ==
    IF TypeFaults(left) \/ TypeFaults(right) THEN Panic
    ELSE IF Type(left) # Type(right)
    THEN newError("type mismatch: " \o Type(left) \o " + " \o Type(right))
    ELSE IF Type(left) = STRING_OBJ /\ Type(right) = STRING_OBJ
    THEN evalStringInfixExpression(left, right, operator)
    ELSE IF Type(left) = INTEGER_OBJ /\ Type(right) = INTEGER_OBJ
    THEN evalIntegerInfixExpression(left, right, operator)
    ELSE IF operator = "==" THEN nativeBoolToBooleanObject(left = right)
    ELSE IF operator = "!=" THEN nativeBoolToBooleanObject(left # right)
    ELSE unknownOperator(left, operator, right)

evalArrayIndexExpression(array, index, h) ==
    LET elements == h.arrs[array.n]
        idx      == index.n
        max      == Len(elements) - 1
    IN  IF idx < 0 \/ idx > max THEN NULL ELSE elements[idx + 1]

applyIndex(left, index, h) ==
    IF TypeFaults(left) THEN Panic
    ELSE IF Type(left) = ARRAY_OBJ /\ TypeFaults(index) THEN Panic
    ELSE IF Type(left) = ARRAY_OBJ /\ Type(index) = INTEGER_OBJ
    THEN IF left.k = "Array" THEN evalArrayIndexExpression(left, index, h)
         ELSE Panic    \* array.(*object.Array) on a Boolean
    ELSE newError("index operator not supported: " \o Type(left))

unwrapReturnValue(obj, h) ==
    IF obj.k = "ReturnValue" THEN h.rvs[obj.n] ELSE obj

-----------------------------------------------------------------------------
(* The built-in registry: each built-in, applied to args in heap h.  The    *)
(* table is the one with len, first, last, rest and push; evaluator.go      *)
(* holds an older table with len on strings alone.                          *)

BuiltinNames == {"len", "first", "last", "rest", "push"}

wrongArguments(got, want) ==
    newError("wrong number of arguments. got=" \o Itoa(got) \o ", want=" \o Itoa(want))

builtinLen(args, h) ==
    IF Len(args) # 1 THEN R(wrongArguments(Len(args), 1), h)
    ELSE LET arg == args[1]
         IN  IF arg.k = "String" THEN R(Integer(Len(arg.s)), h)
             ELSE IF arg.k = "Array" THEN R(Integer(Len(h.arrs[arg.n])), h)
             ELSE IF TypeFaults(arg) THEN R(Panic, h)
             ELSE R(newError("argument to len not supported, got " \o Type(arg)), h)

builtinFirst(args, h) ==
    IF Len(args) # 1 THEN R(wrongArguments(Len(args), 1), h)
    ELSE LET arg == args[1]
         IN  IF arg.k = "Array"
             THEN IF Len(h.arrs[arg.n]) > 0 THEN R(h.arrs[arg.n][1], h) ELSE R(NULL, h)
             ELSE IF TypeFaults(arg) THEN R(Panic, h)
             ELSE R(newError("argument to first must be ARRAY, got " \o Type(arg)), h)

builtinLast(args, h) ==
    IF Len(args) # 1 THEN R(wrongArguments(Len(args), 1), h)
    ELSE LET arg == args[1]
         IN  IF arg.k = "Array"
             THEN IF Len(h.arrs[arg.n]) > 0
                  THEN R(h.arrs[arg.n][Len(h.arrs[arg.n])], h)
                  ELSE R(NULL, h)
             ELSE IF TypeFaults(arg) THEN R(Panic, h)
             ELSE R(newError("argument to last must be ARRAY, got " \o Type(arg)), h)

builtinRest(args, h) ==
    IF Len(args) # 1 THEN R(wrongArguments(Len(args), 1), h)
    ELSE LET arg == args[1]
         IN  IF arg.k = "Array"
             THEN LET elements == h.arrs[arg.n]
                      length   == Len(elements)
                  IN  IF length > 0
                      THEN \* make(length-1); copy(arr, Elements[1:length])
                           LET arr == SubSeq(elements, 2, length)
                           IN  R(Array(Len(h.arrs) + 1),
                                 [h EXCEPT !.arrs = Append(@, arr)])
                      ELSE R(NULL, h)
             ELSE IF TypeFaults(arg) THEN R(Panic, h)
             ELSE R(newError("argument to rest must be ARRAY, got " \o Type(arg)), h)

\* a push that appends to the Elements of its argument and returns the argument
builtinPushInPlace(args, h) ==
    IF Len(args) # 2 THEN R(wrongArguments(Len(args), 2), h)
    ELSE LET arg == args[1]
         IN  IF arg.k = "Array"
             THEN R(arg, [h EXCEPT !.arrs[arg.n] = Append(@, args[2])])
             ELSE IF TypeFaults(arg) THEN R(Panic, h)
             ELSE R(newError("argument to push must be ARRAY, got " \o Type(arg)), h)

builtinPush(args, h) ==
    IF Len(args) # 2 THEN R(wrongArguments(Len(args), 2), h)
    ELSE LET arg == args[1]
         IN  IF arg.k = "Array"
             THEN LET elements == h.arrs[arg.n]
                      \* make(length, length+1); copy; append within the capacity
                      arr      == Append(elements, args[2])
                  IN  R(Array(Len(h.arrs) + 1), [h EXCEPT !.arrs = Append(@, arr)])
             ELSE IF TypeFaults(arg) THEN R(Panic, h)
             ELSE R(newError("argument to push must be ARRAY, got " \o Type(arg)), h)

\* fn.Fn(args...) for the built-in registered under name (messages without the
\* back quotes around the name)
builtins(name, args, h) ==
    CASE name = "len"   -> builtinLen(args, h)
      [] name = "first" -> builtinFirst(args, h)
      [] name = "last"  -> builtinLast(args, h)
      [] name = "rest"  -> builtinRest(args, h)
      [] name = "push"  -> builtinPush(args, h)

-----------------------------------------------------------------------------
(* evaluator.go: Eval and the functions recursive with it.  Each takes the  *)
(* heap and returns R(object, heap afterwards).                              *)

\* the test of evalBlockStatement's loop: return result at once
blockReturnsErrorOnly(res) ==
    IF res # Nil THEN Type(res) = ERROR_OBJ ELSE FALSE

blockReturns(res) ==
    IF res # Nil THEN Type(res) \in {RETURN_VALUE_OBJ, ERROR_OBJ} ELSE FALSE

\* env.Set that rebinds the name where the chain already binds it
bindAssigning(es, e, name, val) ==
    IF es[e].store[name] = Absent /\ es[e].outer # 0
       /\ es[es[e].outer].store[name] # Absent
    THEN Set(es, es[e].outer, name, val)
    ELSE Set(es, e, name, val)

\* env.Set(name, val) as the evaluator calls it (let, parameter binding)
bind(es, e, name, val) == Set(es, e, name, val)

\* extendFunctionEnvironment's loop: parameters[i..] bound to args[i..] in env e;
\* [envs, ok]: ok is FALSE when args[i] is out of range (the loop panics there)
RECURSIVE bindParameters(_, _, _, _, _)
bindParameters(es, e, params, args, i) ==
    IF i > Len(params) THEN [envs |-> es, ok |-> TRUE]
    ELSE IF i > Len(args) THEN [envs |-> es, ok |-> FALSE]
    ELSE bindParameters(bind(es, e, params[i], args[i]), e, params, args, i + 1)

\* [env, h, ok]: the extended environment's address
extendFunctionEnvironment(fn, args, h) ==
    LET f   == h.funs[fn.n]
        env == Len(h.envs) + 1
        b   == bindParameters(Append(h.envs, ExtendEnvironment(f.env)), env,
                              Nodes[f.node].params, args, 1)
    IN  [env |-> env, h |-> [h EXCEPT !.envs = b.envs], ok |-> b.ok]

RECURSIVE Eval(_, _, _)
RECURSIVE evalExpressions(_, _, _, _, _)
RECURSIVE evalBlockLoop(_, _, _, _, _)
RECURSIVE evalIfExpression(_, _, _)
RECURSIVE applyFunction(_, _, _)

\* evalExpressions' loop from argument i on, results so far in `results`: [vs, h]
evalExpressions(arguments, env, h, results, i) ==
    IF i > Len(arguments) THEN [vs |-> results, h |-> h]
    ELSE LET res == Eval(arguments[i], env, h)
         IN  IF IsPanic(res.v) \/ isError(res.v)
             THEN [vs |-> <<res.v>>, h |-> res.h]
             ELSE evalExpressions(arguments, env, res.h, Append(results, res.v), i + 1)

\* evalBlockStatement's loop from statement i on, `result` being res
evalBlockLoop(statements, env, h, res, i) ==
    IF i > Len(statements) THEN R(res, h)
    ELSE LET r == Eval(statements[i], env, h)
         IN  IF IsPanic(r.v) \/ blockReturns(r.v) THEN r
             ELSE evalBlockLoop(statements, env, r.h, r.v, i + 1)

evalBlockStatement(statements, env, h) == evalBlockLoop(statements, env, h, Nil, 1)

evalIfExpression(node, env, h) ==
    LET condition == Eval(Nodes[node].x, env, h)
    IN  IF IsPanic(condition.v) THEN condition
        ELSE IF isTruthy(condition.v) THEN Eval(Nodes[node].y, env, condition.h)
        ELSE IF Nodes[node].z # 0 THEN Eval(Nodes[node].z, env, condition.h)
        ELSE R(NULL, condition.h)

applyFunction(fn, args, h) ==
    IF fn.k = "Function"
    THEN LET ext == extendFunctionEnvironment(fn, args, h)
         IN  IF ~ext.ok THEN R(Panic, ext.h)     \* args[i]: index out of range
             ELSE LET res == Eval(Nodes[h.funs[fn.n].node].y, ext.env, ext.h)
                  IN  IF IsPanic(res.v) THEN res
                      ELSE R(unwrapReturnValue(res.v, res.h), res.h)
    ELSE IF fn.k = "Builtin" THEN builtins(fn.s, args, h)
    ELSE IF TypeFaults(fn) THEN R(Panic, h)
    ELSE R(newError("not a function: " \o Type(fn)), h)

Eval(node, env, h) ==
    LET nd == Nodes[node]
    IN  CASE nd.kind = "BlockStatement" -> evalBlockStatement(nd.list, env, h)
          [] nd.kind = "ExpressionStatement" -> Eval(nd.x, env, h)
          [] nd.kind = "IntegerLiteral" -> R(Integer(nd.ival), h)
          [] nd.kind = "StringLiteral" -> R(String(nd.name), h)
          [] nd.kind = "Boolean" -> R(nativeBoolToBooleanObject(nd.ival = 1), h)
          [] nd.kind = "PrefixExpression" ->
                LET right == Eval(nd.x, env, h)
                IN  IF Stops(right) THEN right
                    ELSE R(evalPrefixExpression(nd.op, right.v), right.h)
          [] nd.kind = "IfExpression" -> evalIfExpression(node, env, h)
          [] nd.kind = "InfixExpression" ->
                LET left == Eval(nd.x, env, h)
                IN  IF Stops(left) THEN left
                    ELSE LET right == Eval(nd.y, env, left.h)
                         IN  IF Stops(right) THEN right
                             ELSE R(evalInfixExpression(left.v, right.v, nd.op), right.h)
          [] nd.kind = "ReturnStatement" ->
                LET val == Eval(nd.x, env, h)
                IN  IF Stops(val) THEN val
                    ELSE R(ReturnValue(Len(val.h.rvs) + 1),
                           [val.h EXCEPT !.rvs = Append(@, val.v)])
          [] nd.kind = "LetStatement" ->
                LET val == Eval(nd.x, env, h)
                IN  IF Stops(val) THEN val
                    ELSE R(Nil, [val.h EXCEPT !.envs = bind(@, env, nd.name, val.v)])
          [] nd.kind = "Identifier" ->
                LET got == Get(h.envs, env, nd.name)
                IN  IF got.ok THEN R(got.val, h)
                    ELSE IF nd.name \in BuiltinNames THEN R(Builtin(nd.name), h)
                    ELSE R(newError("identifier not found: " \o nd.name), h)
          [] nd.kind = "FunctionLiteral" ->
                R(Function(Len(h.funs) + 1),
                  [h EXCEPT !.funs = Append(@, [node |-> node, env |-> env])])
          [] nd.kind = "CallExpression" ->
                LET function == Eval(nd.x, env, h)
                IN  IF Stops(function) THEN function
                    ELSE LET args == evalExpressions(nd.list, env, function.h, <<>>, 1)
                         IN  IF Len(args.vs) = 1
                                /\ (IsPanic(args.vs[1]) \/ isError(args.vs[1]))
                             THEN R(args.vs[1], args.h)
                             ELSE applyFunction(function.v, args.vs, args.h)
          [] nd.kind = "ArrayLiteral" ->
                LET elems == evalExpressions(nd.list, env, h, <<>>, 1)
                IN  IF Len(elems.vs) = 1
                       /\ (IsPanic(elems.vs[1]) \/ isError(elems.vs[1]))
                    THEN R(elems.vs[1], elems.h)
                    ELSE R(Array(Len(elems.h.arrs) + 1),
                           [elems.h EXCEPT !.arrs = Append(@, elems.vs)])
          [] nd.kind = "IndexExpression" ->
                LET array == Eval(nd.x, env, h)
                IN  IF Stops(array) THEN array
                    ELSE LET index == Eval(nd.y, env, array.h)
                         IN  IF Stops(index) THEN index
                             ELSE R(applyIndex(array.v, index.v, index.h), index.h)
          [] OTHER -> R(Nil, h)     \* no case of the switch: return nil

-----------------------------------------------------------------------------
(* evalProgram(statements, env) on a fresh top-level environment: one action *)
(* per iteration of its loop.  The statements are the input.                 *)

GlobalEnv == 1

NoCall == [op |-> "none", e |-> 0, name |-> "", a |-> Nil, b |-> Nil, res |-> Nil, ok |-> FALSE]

TheHeap == Heap(envs, arrs, funs, rvs)

Init ==
    /\ envs = <<NewEnvironment>>
    /\ arrs = <<>>
    /\ funs = <<>>
    /\ rvs = <<>>
    /\ stmt = 0
    /\ result = Nil
    /\ ret = NotYet
    /\ n = 0
    /\ last = NoCall

\* what evalProgram's switch on the statement's result returns (NotYet: the loop goes on)
programReturns(res, h) ==
    IF IsPanic(res) THEN Panic
    ELSE IF res.k = "ReturnValue" THEN h.rvs[res.n]
    ELSE IF res.k = "Error" THEN res
    ELSE NotYet

EvalStatement(s) ==
    /\ ret = NotYet
    /\ n < MaxStmts
    /\ LET r == Eval(s, GlobalEnv, TheHeap)
       IN  /\ envs' = r.h.envs
           /\ arrs' = r.h.arrs
           /\ funs' = r.h.funs
           /\ rvs' = r.h.rvs
           /\ result' = r.v
           /\ ret' = programReturns(r.v, r.h)
    /\ stmt' = s
    /\ n' = n + 1
    /\ UNCHANGED last

\* the loop has run through the statements: return result
ProgramEnd ==
    /\ ret = NotYet
    /\ ret' = result
    /\ UNCHANGED <<envs, arrs, funs, rvs, stmt, result, n, last>>

Next ==
    \/ \E s \in TopStmts : EvalStatement(s)
    \/ ProgramEnd

Spec == Init /\ [][Next]_vars

-----------------------------------------------------------------------------
(* The Environment API called directly: NewEnvironment, ExtendEnvironment,  *)
(* Set and Get on the scopes built so far.                                   *)

EnvNames == {"g", "x"}
EnvVals  == {Integer(1), Integer(2)}

Call(op, e, name, a, b, res, ok) ==
    [op |-> op, e |-> e, name |-> name, a |-> a, b |-> b, res |-> res, ok |-> ok]

EnvNew ==
    /\ Len(envs) < MaxEnvs
    /\ envs' = Append(envs, NewEnvironment)
    /\ last' = Call("NewEnvironment", Len(envs) + 1, "", Nil, Nil, Nil, TRUE)
    /\ UNCHANGED <<arrs, funs, rvs, stmt, result, ret, n>>

EnvExtend(outer) ==
    /\ Len(envs) < MaxEnvs
    /\ envs' = Append(envs, ExtendEnvironment(outer))
    /\ last' = Call("ExtendEnvironment", Len(envs) + 1, "", Nil, Nil, Nil, TRUE)
    /\ UNCHANGED <<arrs, funs, rvs, stmt, result, ret, n>>

EnvSet(e, name, val) ==
    /\ envs' = Set(envs, e, name, val)
    /\ last' = Call("Set", e, name, val, Nil, val, TRUE)
    /\ UNCHANGED <<arrs, funs, rvs, stmt, result, ret, n>>

EnvGet(e, name) ==
    /\ LET got == Get(envs, e, name)
       IN  last' = Call("Get", e, name, Nil, Nil, got.val, got.ok)
    /\ UNCHANGED <<envs, arrs, funs, rvs, stmt, result, ret, n>>

NextEnv ==
    \/ EnvNew
    \/ \E outer \in 1..Len(envs) : EnvExtend(outer)
    \/ \E e \in 1..Len(envs), name \in EnvNames, val \in EnvVals : EnvSet(e, name, val)
    \/ \E e \in 1..Len(envs), name \in EnvNames : EnvGet(e, name)

SpecEnv == Init /\ [][NextEnv]_vars

\* the binding of name in the nearest scope of the whole chain of e: [val, ok]
RECURSIVE ChainLookup(_, _, _)
ChainLookup(es, e, name) ==
    IF es[e].store[name] # Absent THEN [val |-> es[e].store[name], ok |-> TRUE]
    ELSE IF es[e].outer = 0 THEN [val |-> Nil, ok |-> FALSE]
    ELSE ChainLookup(es, es[e].outer, name)

\* C1: Get(name) on a scope returns the value bound in the nearest scope of the
\* chain that binds the name, whatever the depth of the chain, and reports
\* not-found only when no scope of the whole chain binds it.
C1_GetFindsNearestBinding ==
    last.op = "Get" =>
        LET want == ChainLookup(envs, last.e, last.name)
        IN  /\ last.ok = want.ok
            /\ last.ok => last.res = want.val

-----------------------------------------------------------------------------
(* evalInfixExpression applied directly to two objects *)

InfixOperators == {"+", "-", "*", "/", "==", "!=", "<", ">"}

\* one array and one function on the heap, for the operands
InitInfix ==
    /\ envs = <<NewEnvironment>>
    /\ arrs = << <<Integer(1)>> >>
    /\ funs = << [node |-> CHOOSE i \in 1..Len(Nodes) : Nodes[i].kind = "FunctionLiteral",
                  env |-> GlobalEnv] >>
    /\ rvs = <<>>
    /\ stmt = 0
    /\ result = Nil
    /\ ret = NotYet
    /\ n = 0
    /\ last = NoCall

Operands ==
    {Integer(0), Integer(1), String("a"), TRUE_, FALSE_, NULL, Array(1), Function(1),
     Builtin("len")}

ApplyInfix(left, right, operator) ==
    /\ last' = Call("infix", 0, operator, left, right,
                    evalInfixExpression(left, right, operator), TRUE)
    /\ UNCHANGED <<envs, arrs, funs, rvs, stmt, result, ret, n>>

NextInfix ==
    \E left \in Operands, right \in Operands, operator \in InfixOperators :
        ApplyInfix(left, right, operator)

SpecInfix == InitInfix /\ [][NextInfix]_vars

TypeTags ==
    {INTEGER_OBJ, BOOLEAN_OBJ, ARRAY_OBJ, HASH_OBJ, NULL_OBJ, RETURN_VALUE_OBJ, ERROR_OBJ,
     FUNCTION_OBJ, STRING_OBJ, BUILTIN_OBJ}

IsTypeMismatch(o) ==
    /\ o.k = "Error"
    /\ \E t1 \in TypeTags, t2 \in TypeTags : o.s = "type mismatch: " \o t1 \o " + " \o t2

\* C5: for every infix operator and every two operands of different variants the
\* result is a type-mismatch Error, never a Boolean and never an unknown-operator
\* Error.
C5_DifferentVariantsMismatch ==
    (last.op = "infix" /\ last.a.k # last.b.k) => IsTypeMismatch(last.res)

-----------------------------------------------------------------------------
(* The built-ins called directly on arrays of the heap *)

Elems == {Integer(1), Integer(2)}

\* an array object as the evaluator's ArrayLiteral case allocates it
ArrayNew(elems) ==
    /\ Len(arrs) < MaxArrs
    /\ arrs' = Append(arrs, elems)
    /\ last' = Call("array", 0, "", Nil, Nil, Array(Len(arrs) + 1), TRUE)
    /\ UNCHANGED <<envs, funs, rvs, stmt, result, ret, n>>

CallBuiltin(name, args) ==
    /\ Len(arrs) < MaxArrs
    /\ LET r == builtins(name, args, TheHeap)
       IN  /\ arrs' = r.h.arrs
           /\ last' = Call(name, Len(args),  "",
                           IF Len(args) >= 1 THEN args[1] ELSE Nil,
                           IF Len(args) >= 2 THEN args[2] ELSE Nil, r.v, TRUE)
    /\ UNCHANGED <<envs, funs, rvs, stmt, result, ret, n>>

BuiltinArgs ==
    LET objs == {Array(a) : a \in 1..Len(arrs)} \cup {Integer(1)}
    IN  {<<a>> : a \in objs} \cup {<<a, x>> : a \in objs, x \in Elems}

NextBuiltins ==
    \/ \E elems \in {<<>>, <<Integer(1)>>} : ArrayNew(elems)
    \/ \E name \in BuiltinNames, args \in BuiltinArgs : CallBuiltin(name, args)

SpecBuiltins == Init /\ [][NextBuiltins]_vars

\* C9: every array that existed before a call of push or rest has the same
\* elements in the same order after it; push(a, x) returns a new array of len(a)+1
\* elements ending in x, rest(a) (a not empty) a new array of len(a)-1 elements, so
\* results derived from the same array are independent of each other.  (rest of an
\* empty array returns NULL and allocates nothing.)
C9_PushRestLeaveArraysUntouched ==
    [][ /\ Len(arrs') >= Len(arrs)
        /\ \A i \in 1..Len(arrs) : arrs'[i] = arrs[i]
        /\ (last'.op = "push" /\ last'.e = 2 /\ last'.a.k = "Array") =>
              /\ last'.res.k = "Array"
              /\ last'.res.n > Len(arrs)
              /\ Len(arrs'[last'.res.n]) = Len(arrs[last'.a.n]) + 1
              /\ arrs'[last'.res.n][Len(arrs'[last'.res.n])] = last'.b
              /\ \A j \in 1..Len(arrs[last'.a.n]) :
                    arrs'[last'.res.n][j] = arrs[last'.a.n][j]
        /\ (last'.op = "rest" /\ last'.e = 1 /\ last'.a.k = "Array") =>
              IF Len(arrs[last'.a.n]) = 0
              THEN last'.res = NULL /\ arrs' = arrs
              ELSE /\ last'.res.k = "Array"
                   /\ last'.res.n > Len(arrs)
                   /\ Len(arrs'[last'.res.n]) = Len(arrs[last'.a.n]) - 1
                   /\ \A j \in 1..Len(arrs'[last'.res.n]) :
                         arrs'[last'.res.n][j] = arrs[last'.a.n][j + 1]
      ]_vars

\* two different results of push on the same array, the second just returned
C9_Witness ==
    /\ last.op = "push"
    /\ last.res.k = "Array"
    /\ \E j \in 1..Len(arrs) :
          /\ j # last.res.n
          /\ j # last.a.n
          /\ Len(arrs[j]) = Len(arrs[last.a.n]) + 1
          /\ SubSeq(arrs[j], 1, Len(arrs[last.a.n])) = arrs[last.a.n]
          /\ arrs[j] # arrs[last.res.n]

-----------------------------------------------------------------------------
(* Claims about Eval on a Program (specification Spec) *)

ObjectKinds ==
    {"Integer", "String", "Boolean", "Null", "Array", "Function", "Builtin",
     "ReturnValue", "Error"}

Blocks == {i \in 1..Len(Nodes) : Nodes[i].kind = "BlockStatement"}

IsExpressionStatementOf(s, kind) ==
    /\ Nodes[s].kind = "ExpressionStatement"
    /\ Nodes[Nodes[s].x].kind = kind

\* the statements `f(args);` and `if (..) {..};` of a Program
CallStmts == {s \in TopStmts : IsExpressionStatementOf(s, "CallExpression")}
IfStmts   == {s \in TopStmts : IsExpressionStatementOf(s, "IfExpression")}

\* C2: Eval of a well-formed Program on a fresh environment completes and returns
\* one Object, a value or an Error: never nil and never a host-level fault (here
\* for the Programs of at least one statement).
C2_EvalReturnsAnObject ==
    (ret # NotYet /\ n >= 1) => ret.k \in ObjectKinds

\* The statements of a sequence evaluated in order from statement i, up to the
\* first one that evaluates to a ReturnValue or an Error:
\* [stopped, at, r], r being that statement's result and the heap after it.
RECURSIVE RunToFirstStop(_, _, _, _)
RunToFirstStop(statements, e, h, i) ==
    IF i > Len(statements) THEN [stopped |-> FALSE, at |-> 0, r |-> R(Nil, h)]
    ELSE LET r == Eval(statements[i], e, h)
         IN  IF r.v.k \in {"ReturnValue", "Error"}
             THEN [stopped |-> TRUE, at |-> i, r |-> r]
             ELSE IF IsPanic(r.v) THEN [stopped |-> FALSE, at |-> i, r |-> r]
             ELSE RunToFirstStop(statements, e, r.h, i + 1)

\* C3: in a Program or a block, once a statement evaluates to a ReturnValue or an
\* Error no later statement of the sequence is evaluated (the environments and
\* the rest of the heap are as that statement left them: no later let, no later
\* call) and the result of the sequence is that statement's: for a block the
\* object itself, for the Program the Error or the ReturnValue's inner value.
C3_SequenceStopsAtReturnOrError ==
    /\ result.k = "ReturnValue" => ret = rvs[result.n]
    /\ result.k = "Error" => ret = result
    /\ \A b \in Blocks, e \in 1..Len(envs) :
          LET run == RunToFirstStop(Nodes[b].list, e, TheHeap, 1)
          IN  run.stopped => evalBlockStatement(Nodes[b].list, e, TheHeap) = run.r

\* the Program's statement just evaluated is an if whose block returned at its
\* first statement, with statements after it
C3_Witness ==
    /\ stmt \in IfStmts
    /\ result.k = "ReturnValue"
    /\ ret = rvs[result.n]
    /\ Len(Nodes[Nodes[Nodes[stmt].x].y].list) > 1
    /\ Nodes[Nodes[Nodes[Nodes[stmt].x].y].list[1]].kind = "ReturnStatement"

\* C4: when the condition of an if/else evaluates to an Error, the if/else
\* evaluates to that Error and neither block is evaluated (the heap is as the
\* condition left it).
C4_IfConditionErrorIsTheResult ==
    [][ (stmt' \in IfStmts /\ n' = n + 1) =>
            LET c == Eval(Nodes[Nodes[stmt'].x].x, GlobalEnv, TheHeap)
            IN  isError(c.v) =>
                    /\ result' = c.v
                    /\ envs' = c.h.envs
                    /\ funs' = c.h.funs
                    /\ rvs' = c.h.rvs
      ]_vars

\* a statement that holds a return statement in if/else blocks, at any depth
RECURSIVE StmtHasReturn(_)
StmtHasReturn(s) ==
    \/ Nodes[s].kind = "ReturnStatement"
    \/ /\ IsExpressionStatementOf(s, "IfExpression")
       /\ LET i == Nodes[Nodes[s].x]
          IN  \/ \E j \in 1..Len(Nodes[i.y].list) : StmtHasReturn(Nodes[i.y].list[j])
              \/ /\ i.z # 0
                 /\ \E j \in 1..Len(Nodes[i.z].list) : StmtHasReturn(Nodes[i.z].list[j])

\* a function literal whose body holds a return statement nested in if/else blocks
HasNestedReturn(f) ==
    \E j \in 1..Len(Nodes[Nodes[f].y].list) :
        LET s == Nodes[Nodes[f].y].list[j]
        IN  IsExpressionStatementOf(s, "IfExpression") /\ StmtHasReturn(s)

\* the Function object the statement `name(args);` calls, Absent if it calls none
Callee(s) ==
    LET c == Nodes[Nodes[s].x]
    IN  IF Nodes[c.x].kind = "Identifier" /\ envs[GlobalEnv].store[Nodes[c.x].name].k = "Function"
        THEN envs[GlobalEnv].store[Nodes[c.x].name]
        ELSE Absent

\* C6: a return nested in the if/else blocks of a function body ends that body
\* only: the call yields a value, not the ReturnValue carrier, and the Program
\* that made the call goes on with its next statement.
C6_NestedReturnEndsOnlyTheFunction ==
    (/\ stmt \in CallStmts
     /\ Callee(stmt) # Absent
     /\ HasNestedReturn(funs[Callee(stmt).n].node)
     /\ ~isError(result)
     /\ ~IsPanic(result))
    => /\ result.k # "ReturnValue"
       /\ ret \in {NotYet, result}

\* C7: a closure's free variable is resolved through the whole environment chain
\* captured at its definition, with the latest binding: for every function object
\* `fn() { name }` of the heap, a call yields what the nearest scope of its
\* captured chain binds name to now.
C7_ClosureReadsCapturedChain ==
    \A f \in 1..Len(funs) :
        LET lit  == Nodes[funs[f].node]
            body == Nodes[lit.y].list
        IN  (/\ lit.params = <<>>
             /\ Len(body) = 1
             /\ IsExpressionStatementOf(body[1], "Identifier"))
            => LET want == ChainLookup(envs, funs[f].env, Nodes[Nodes[body[1]].x].name)
               IN  want.ok => applyFunction(Function(f), <<>>, TheHeap).v = want.val

ArgLists == {<<>>, <<Integer(5)>>, <<TRUE_>>}

\* C8: binding writes only the scope it is executed in: a call (its parameter
\* bindings, the let statements of the body, the calls the body makes) leaves
\* every environment that existed before it as it was, for the call statements of
\* the Program and for a call of any function object of the heap.
C8_CallsLeaveEnclosingScopesUnchanged ==
    /\ [](\A f \in 1..Len(funs), args \in ArgLists :
            LET r == applyFunction(Function(f), args, TheHeap)
            IN  /\ \A e \in 1..Len(envs) : r.h.envs[e] = envs[e]
                /\ r.h.envs[Len(envs) + 1].outer = funs[f].env)
    /\ [][ (stmt' \in CallStmts /\ n' = n + 1) =>
               \A e \in 1..Len(envs) : envs'[e] = envs[e] ]_vars

\* a call statement has bound, in the scope of a call, a name that the enclosing
\* scope binds too, to another value
C8_Witness ==
    /\ stmt \in CallStmts
    /\ \E e \in 1..Len(envs), nm \in Names :
          /\ envs[e].outer # 0
          /\ envs[e].store[nm] # Absent
          /\ envs[envs[e].outer].store[nm] # Absent
          /\ envs[envs[e].outer].store[nm] # envs[e].store[nm]

\* C10: a ReturnValue is never observable: it is not the result of the Program,
\* not the result of a function call, and no name is bound to one.
C10_ReturnValueNeverObserved ==
    /\ ret.k # "ReturnValue"
    /\ stmt \in CallStmts => result.k # "ReturnValue"
    /\ \A e \in 1..Len(envs), nm \in Names : envs[e].store[nm].k # "ReturnValue"

====
